---- MODULE Spec2Model ----
(***************************************************************************)
(* A model of src/llm.py of GitHub-Readme-Bot: clean_output,               *)
(* get_repo_data and analyze_repo_sync.                                    *)
(*                                                                         *)
(* Text is a sequence of strings.  Where the code looks inside a text      *)
(* (URL splitting, path filters, the <think> markers, newline runs,        *)
(* stripping, the 1000-character slice) the text is written one character  *)
(* per element.  A fixed literal of a template that the code never looks   *)
(* inside is written as one element.                                       *)
(***************************************************************************)
EXTENDS Integers, Sequences, FiniteSets, TLC

VARIABLES
    repo_url,        \* argument of analyze_repo_sync
    github,          \* the remote repository: the metadata and tree responses
    groq,            \* what the completion call will do
    pc,              \* position of the invocation
    owner, repo,     \* llm.py:40
    summary,         \* llm.py:61
    default_branch,  \* llm.py:73
    tree_data,       \* llm.py:85, the entries of the tree response
    item,            \* index of the loop at llm.py:102
    tree,            \* llm.py:88, the tree block
    content,         \* llm.py:89, the content block
    current_date,    \* llm.py:147, local of analyze_repo_sync
    requests,        \* the external requests issued so far, in order
    outcome,         \* "running", "returned" or "raised"
    result,          \* the returned text
    error,           \* the message of the exception analyze_repo_sync caught
    cleanIn, cleanOnce, cleanTwice   \* clean_output applied to a text, and again

vars == <<repo_url, github, groq, pc, owner, repo, summary, default_branch,
          tree_data, item, tree, content, current_date, requests,
          outcome, result, error, cleanIn, cleanOnce, cleanTwice>>

cleanVars == <<cleanIn, cleanOnce, cleanTwice>>

(***************************************************************************)
(* Bounds of the model.                                                    *)
(***************************************************************************)
MaxTail == 4      \* characters of a repository URL after the host
MaxTree == 2      \* entries of a tree response
MaxFrags == 5     \* fragments a text given to clean_output is built from

(***************************************************************************)
(* Text helpers.                                                           *)
(***************************************************************************)
Min(a, b) == IF a <= b THEN a ELSE b

Indices(s) == [i \in 1..Len(s) |-> i]

Repeat(c, n) == [i \in 1..n |-> c]

RECURSIVE Concat(_)
Concat(ss) == IF ss = <<>> THEN <<>> ELSE Head(ss) \o Concat(Tail(ss))

\* s[i..] starts with pat
StartsAt(s, i, pat) ==
    /\ i >= 1
    /\ i + Len(pat) - 1 <= Len(s)
    /\ SubSeq(s, i, i + Len(pat) - 1) = pat

\* str.endswith
EndsWith(s, pat) == StartsAt(s, Len(s) - Len(pat) + 1, pat)

\* the in operator on strings
Contains(s, pat) == \E i \in 1..(Len(s) + 1) : StartsAt(s, i, pat)

\* the first index >= from at which pat occurs in s, 0 when there is none
FirstAt(s, from, pat) ==
    LET hits == {j \in from..Len(s) : StartsAt(s, j, pat)}
    IN  IF hits = {} THEN 0 ELSE CHOOSE j \in hits : \A k \in hits : j <= k

\* the characters str.strip() and str.rstrip() remove
Whitespace == {" ", "\t", "\n", "\r", "\f"}

\* str.strip()
Strip(s) ==
    IF \A i \in 1..Len(s) : s[i] \in Whitespace THEN <<>>
    ELSE LET lo == CHOOSE i \in 1..Len(s) :
                     /\ s[i] \notin Whitespace
                     /\ \A k \in 1..(i - 1) : s[k] \in Whitespace
             hi == CHOOSE i \in 1..Len(s) :
                     /\ s[i] \notin Whitespace
                     /\ \A k \in (i + 1)..Len(s) : s[k] \in Whitespace
         IN  SubSeq(s, lo, hi)

\* str.rstrip('/')
RStripSlash(s) ==
    IF \A i \in 1..Len(s) : s[i] = "/" THEN <<>>
    ELSE SubSeq(s, 1, CHOOSE i \in 1..Len(s) :
                        /\ s[i] # "/"
                        /\ \A k \in (i + 1)..Len(s) : s[k] = "/")

\* str.split('/'): the segments between the slashes, empty ones included
Split(s) ==
    LET cuts == {i \in 1..Len(s) : s[i] = "/"}
        n == Cardinality(cuts)
        \* position of the k-th slash; 0 before the first, Len(s)+1 after the last
        cut(k) == IF k = 0 THEN 0
                  ELSE IF k > n THEN Len(s) + 1
                  ELSE CHOOSE i \in cuts : Cardinality({j \in cuts : j <= i}) = k
    IN  [k \in 1..(n + 1) |-> SubSeq(s, cut(k - 1) + 1, cut(k) - 1)]

\* ', '.join
RECURSIVE Join(_)
Join(ss) ==
    IF ss = <<>> THEN <<>>
    ELSE IF Len(ss) = 1 THEN Head(ss)
    ELSE Head(ss) \o <<", ">> \o Join(Tail(ss))

(***************************************************************************)
(* clean_output, llm.py:28-33.                                             *)
(***************************************************************************)
ThinkOpen == <<"<", "t", "h", "i", "n", "k", ">">>
ThinkClose == <<"<", "/", "t", "h", "i", "n", "k", ">">>

\* re.sub(r'<think>.*?</think>', '', s, flags=re.DOTALL): scanning from the
\* left, an opening marker that has a closing marker after it is removed up
\* to the first such closing marker, and the scan goes on behind it.
RECURSIVE RemoveThinkFrom(_, _)
RemoveThinkFrom(s, i) ==
    IF i > Len(s) THEN <<>>
    ELSE LET close == FirstAt(s, i + Len(ThinkOpen), ThinkClose)
         IN  IF StartsAt(s, i, ThinkOpen) /\ close # 0
             THEN RemoveThinkFrom(s, close + Len(ThinkClose))
             ELSE <<s[i]>> \o RemoveThinkFrom(s, i + 1)

RemoveThink(s) == RemoveThinkFrom(s, 1)

\* re.sub(r'\n{3,}', '\n\n', s): of every run of newlines the first two stay
CollapseNewlines(s) ==
    LET dropped(i) == /\ i >= 3
                      /\ s[i] = "\n" /\ s[i - 1] = "\n" /\ s[i - 2] = "\n"
        kept == SelectSeq(Indices(s), LAMBDA i : ~dropped(i))
    IN  [k \in 1..Len(kept) |-> s[kept[k]]]

clean_output(generated_content) ==
    Strip(CollapseNewlines(RemoveThink(generated_content)))

(***************************************************************************)
(* JSON values of the responses.  A value carries its type, so that a      *)
(* null, a string and a list are told apart the way Python tells None, str *)
(* and list apart.  An object is a function from the keys it has.          *)
(***************************************************************************)
Null == [t |-> "null", v |-> <<>>]
Str(s) == [t |-> "str", v |-> s]
List(l) == [t |-> "list", v |-> l]
Num(n) == [t |-> "num", v |-> n]

\* dict.get(key, default): the default is used only when the key is missing
Get(d, key, default) == IF key \in DOMAIN d THEN d[key] ELSE default

\* a value inside an f-string: str(None) is "None"
Format(x) ==
    IF x.t = "null" THEN <<"None">>
    ELSE IF x.t = "num" THEN <<ToString(x.v)>>
    ELSE x.v

(***************************************************************************)
(* The inputs: repository URLs, and what the services answer.              *)
(***************************************************************************)
UrlHost == <<"h", "t", "t", "p", "s", ":", "/", "/",
             "g", "i", "t", "h", "u", "b", ".", "c", "o", "m">>

UrlTails == UNION {[1..n -> {"/", "a", "d"}] : n \in 0..MaxTail}

Urls == {UrlHost \o t : t \in UrlTails}

BaseUrl == UrlHost \o <<"/", "a", "/", "d">>

Http(status, text, json) ==
    [kind |-> "http", status |-> status, text |-> text, json |-> json]

\* requests.get raising (no connection, timeout)
Raises(msg) == [kind |-> "raise", status |-> 0, text |-> msg, json |-> <<>>]

NotFound == Http(404, <<"Not Found">>, <<>>)

Fields(key, values) == {<<>>} \cup {<<key, x>> : x \in values}

\* the fields of pairs as an object
Object(pairs) ==
    [k \in {p[1] : p \in {q \in pairs : q # <<>>}} |->
        (CHOOSE p \in pairs : p # <<>> /\ p[1] = k)[2]]

MetaBodies ==
    {Object({<<"name", Str(<<"d">>)>>, de, la, tp, br} \cup st) :
        de \in Fields("description", {Null, Str(<<"D">>)}),
        la \in Fields("language", {Null, Str(<<"L">>)}),
        tp \in Fields("topics", {Null, List(<<>>), List(<<<<"t1">>>>),
                                 List(<<<<"t1">>, <<"t2">>>>)}),
        br \in Fields("default_branch", {Null, Str(<<"dev">>)}),
        st \in {{}, {<<"stargazers_count", Num(5)>>, <<"forks_count", Num(2)>>,
                     <<"created_at", Str(<<"2020">>)>>,
                     <<"updated_at", Str(<<"2021">>)>>}}}

BaseMeta ==
    Http(200, <<>>, Object({<<"name", Str(<<"d">>)>>,
                            <<"description", Str(<<"D">>)>>,
                            <<"language", Str(<<"L">>)>>,
                            <<"topics", List(<<<<"t1">>>>)>>,
                            <<"default_branch", Str(<<"dev">>)>>}))

MetaResponses ==
    {Http(200, <<>>, b) : b \in MetaBodies}
        \cup {NotFound, Http(500, <<"Server Error">>, <<>>),
              Raises(<<"Connection refused">>)}

\* the entries a tree response is made of; an entry without a path is one
\* whose path is empty (item.get('path', ''))
Entry(path, type) == [path |-> path, type |-> type]

Entries ==
    {Entry(<<"a", ".", "p", "y">>, "blob"),
     Entry(<<"b", ".", "p", "n", "g">>, "blob"),
     Entry(<<"b", ".", "p", "n", "g", ".", "m", "d">>, "blob"),
     Entry(<<"e", "n", "v", "/", "c">>, "blob"),
     Entry(<<"x", "e", "n", "v", "/", "c", ".", "p", "y">>, "blob"),
     Entry(<<"s", "r", "c">>, "tree"),
     Entry(<<>>, "blob")}

\* a tree response lists a path once
Trees ==
    {t \in UNION {[1..n -> Entries] : n \in 0..MaxTree} :
        \A i, j \in 1..Len(t) : t[i].path = t[j].path => i = j}

TreeJson(entries) == [k \in {"tree"} |-> entries]

BaseTree == Http(200, <<>>, TreeJson(<<Entry(<<"a", ".", "p", "y">>, "blob")>>))

TreeResponses ==
    {Http(200, <<>>, TreeJson(t)) : t \in Trees}
        \cup {Http(200, <<>>, <<>>), NotFound,
              Http(409, <<"Git Repository is empty.">>, <<>>),
              Raises(<<"Connection refused">>)}

(***************************************************************************)
(* The bytes of a file, written as strings: the ASCII characters "a", " "  *)
(* and "\n", the two bytes "0xC3" "0xA9" of the character U+00E9, and      *)
(* "0xFF", which no UTF-8 text holds.                                      *)
(***************************************************************************)
IsAscii(b) == b \in {"a", " ", "\n"}
IsLead(b) == b = "0xC3"
IsCont(b) == b = "0xA9"

\* whether bytes.decode('utf-8') succeeds
Utf8Valid(bs) ==
    \A i \in 1..Len(bs) :
        \/ IsAscii(bs[i])
        \/ IsLead(bs[i]) /\ i < Len(bs) /\ IsCont(bs[i + 1])
        \/ IsCont(bs[i]) /\ i > 1 /\ IsLead(bs[i - 1])

\* bytes.decode('utf-8') of valid bytes: one character per ASCII byte and
\* per two-byte sequence
Utf8Decode(bs) ==
    LET starts == SelectSeq(Indices(bs), LAMBDA i : ~IsCont(bs[i]))
    IN  [k \in 1..Len(starts) |->
            IF IsLead(bs[starts[k]]) THEN "U+00E9" ELSE bs[starts[k]]]

ExcerptLen == 1000

\* the content field of a content response: missing, or base64 text that
\* b64decode rejects or turns into bytes
FileContent(present, b64ok, bytes) ==
    [present |-> present, b64ok |-> b64ok, bytes |-> bytes]

\* the responses of a content request, by name
FileResponse(name) ==
    CASE name = "raises" -> Raises(<<"Connection reset">>)
      [] name = "notfound" -> NotFound
      [] name = "nocontent" -> Http(200, <<>>, FileContent(FALSE, TRUE, <<>>))
      [] name = "empty" -> Http(200, <<>>, FileContent(TRUE, TRUE, <<>>))
      [] name = "badbase64" -> Http(200, <<>>, FileContent(TRUE, FALSE, <<>>))
      [] name = "notutf8" -> Http(200, <<>>, FileContent(TRUE, TRUE, <<"a", "0xFF">>))
      [] name = "blank" -> Http(200, <<>>, FileContent(TRUE, TRUE, <<" ", "\n">>))
      [] name = "short" ->
            Http(200, <<>>, FileContent(TRUE, TRUE, <<"a", "0xC3", "0xA9", "\n">>))
      [] name = "full" ->
            Http(200, <<>>, FileContent(TRUE, TRUE, Repeat("a", ExcerptLen)))
      [] name = "long" ->
            Http(200, <<>>, FileContent(TRUE, TRUE,
                Repeat("a", ExcerptLen - 1) \o <<"0xC3", "0xA9", " ">>))

FileResponses ==
    {"raises", "notfound", "nocontent", "empty", "badbase64", "notutf8",
     "blank", "short", "full", "long"}

\* what the completion call does
BaseGroq == [kind |-> "text", text |-> <<"#", " ", "R">>]

GroqOutcomes ==
    {[kind |-> k, text |-> <<>>] :
        k \in {"nokey", "raise", "nochoice", "nomessage", "nocontent"}}
        \cup {[kind |-> "text", text |-> t] :
                t \in {<<"#", " ", "R">>,
                       <<"\n">> \o ThinkOpen \o <<"x">> \o ThinkClose
                           \o <<"\n", "\n", "\n", "R", "\n", "\n">>,
                       <<>>}}

Scenario(u, m, t, g) == [repo_url |-> u, meta |-> m, tree |-> t, groq |-> g]

\* each family varies one input over its whole set
Scenarios ==
    {Scenario(u, m, BaseTree, BaseGroq) : u \in Urls, m \in {BaseMeta, NotFound}}
        \cup {Scenario(BaseUrl, m, t, BaseGroq) :
                m \in MetaResponses, t \in {BaseTree, NotFound}}
        \cup {Scenario(BaseUrl, BaseMeta, t, BaseGroq) : t \in TreeResponses}
        \cup {Scenario(BaseUrl, BaseMeta, BaseTree, g) : g \in GroqOutcomes}

(***************************************************************************)
(* get_repo_data, llm.py:35-138.                                           *)
(***************************************************************************)
binary_extensions ==
    {<<".", "p", "n", "g">>,
     <<".", "j", "p", "g">>,
     <<".", "j", "p", "e", "g">>,
     <<".", "g", "i", "f">>,
     <<".", "i", "c", "o">>,
     <<".", "p", "d", "f">>,
     <<".", "z", "i", "p">>,
     <<".", "t", "a", "r">>,
     <<".", "g", "z">>,
     <<".", "r", "a", "r">>,
     <<".", "7", "z">>,
     <<".", "e", "x", "e">>,
     <<".", "d", "l", "l">>,
     <<".", "s", "o">>,
     <<".", "d", "y", "l", "i", "b">>,
     <<".", "c", "l", "a", "s", "s">>,
     <<".", "p", "y", "c">>,
     <<".", "p", "y", "o">>,
     <<".", "p", "y", "d">>,
     <<".", "d", "b">>,
     <<".", "s", "q", "l", "i", "t", "e">>,
     <<".", "s", "q", "l", "i", "t", "e", "3">>,
     <<".", "b", "i", "n">>,
     <<".", "d", "a", "t">>,
     <<".", "i", "s", "o">>}

excluded_paths ==
    {<<".", "g", "i", "t", "/">>,
     <<".", "g", "i", "t", "h", "u", "b", "/", "w", "o", "r", "k", "f", "l", "o", "w", "s", "/">>,
     <<"n", "o", "d", "e", "_", "m", "o", "d", "u", "l", "e", "s", "/">>,
     <<"v", "e", "n", "v", "/">>,
     <<"e", "n", "v", "/">>,
     <<"_", "_", "p", "y", "c", "a", "c", "h", "e", "_", "_", "/">>,
     <<"d", "i", "s", "t", "/">>,
     <<"b", "u", "i", "l", "d", "/">>,
     <<"c", "o", "v", "e", "r", "a", "g", "e", "/">>,
     <<".", "p", "y", "t", "e", "s", "t", "_", "c", "a", "c", "h", "e", "/">>}

\* IsCandidate with the excluded directories matched at the start of the path
IsCandidateByPrefix(entry) ==
    /\ entry.type = "blob"
    /\ ~\E ext \in binary_extensions : EndsWith(entry.path, ext)
    /\ ~\E excl \in excluded_paths : StartsAt(entry.path, 1, excl)

\* the condition at llm.py:109-111
IsCandidate(entry) ==
    /\ entry.type = "blob"
    /\ ~\E ext \in binary_extensions : EndsWith(entry.path, ext)
    /\ ~\E excl \in excluded_paths : Contains(entry.path, excl)

\* the unpacking at llm.py:40 of the parts of the URL
UrlParts(url) == Split(RStripSlash(url))

UnpackOk(parts) == Len(parts) = 5

UnpackError(parts) ==
    IF Len(parts) < 5
    THEN <<"not enough values to unpack (expected 5, got ", ToString(Len(parts)), ")">>
    ELSE <<"too many values to unpack (expected 5)">>

ApiBase(o, r) == <<"https://api.github.com", "/repos/">> \o o \o <<"/">> \o r

\* IsSuccess with the status left unchecked
IsSuccessUnchecked(response) == TRUE

\* the status checks at llm.py:54 and llm.py:81
IsSuccess(response) == response.status = 200

\* the message raised at llm.py:56 and llm.py:83
ApiError(response) ==
    <<"GitHub API returned ", ToString(response.status), ": ">> \o response.text

\* llm.py:66; joining None raises TypeError
TopicsOk(repo_data) ==
    Get(repo_data, "topics", List(<<<<"None specified">>>>)).t = "list"

\* llm.py:61-71
Summary(repo_data) ==
    <<"\n            Repository Information:\n            - Name: ">>
        \o Format(Get(repo_data, "name", Null))
        \o <<"\n            - Description: ">>
        \o Format(Get(repo_data, "description", Str(<<"No description provided">>)))
        \o <<"\n            - Primary Language: ">>
        \o Format(Get(repo_data, "language", Str(<<"Not specified">>)))
        \o <<"\n            - Topics: ">>
        \o Join(Get(repo_data, "topics", List(<<<<"None specified">>>>)).v)
        \o <<"\n            - Stars: ">>
        \o Format(Get(repo_data, "stargazers_count", Num(0)))
        \o <<"\n            - Forks: ">>
        \o Format(Get(repo_data, "forks_count", Num(0)))
        \o <<"\n            - Created: ">>
        \o Format(Get(repo_data, "created_at", Str(<<"Unknown">>)))
        \o <<"\n            - Last Updated: ">>
        \o Format(Get(repo_data, "updated_at", Str(<<"Unknown">>)))
        \o <<"\n            ">>

\* llm.py:73
DefaultBranch(repo_data) ==
    Format(Get(repo_data, "default_branch", Str(<<"main">>)))

TreeHeader == <<"File Structure:\n">>
ContentHeader == <<"Code Analysis:\n">>

\* llm.py:107
TreeLine(path) == <<"- ">> \o path \o <<"\n">>

\* the slice file_content[:1000]
Sliced(file_content) == SubSeq(file_content, 1, Min(ExcerptLen, Len(file_content)))

\* the three backquotes of a fence and the single one of the error report,
\* which a string of this language cannot hold
Fence == "[fence]"
Backquote == "[backquote]"

\* Excerpt with the marker written only when the content was cut
ExcerptMarkedWhenCut(path, file_content) ==
    <<"\n### ">> \o path \o <<"\n", Fence, "\n">> \o Sliced(file_content)
        \o (IF Len(file_content) > ExcerptLen THEN <<"...">> ELSE <<>>)
        \o <<"\n", Fence, "\n">>

\* llm.py:124
Excerpt(path, file_content) ==
    <<"\n### ">> \o path \o <<"\n", Fence, "\n">> \o Sliced(file_content)
        \o <<"...", "\n", Fence, "\n">>

\* HasExcerpt with bytes that are no UTF-8 text passed on as they are
HasExcerptUndecoded(response) ==
    /\ response.kind = "http"
    /\ response.status = 200
    /\ response.json.present
    /\ response.json.bytes # <<>>
    /\ response.json.b64ok
    /\ Strip(Utf8Decode(response.json.bytes)) # <<>>

\* llm.py:118-123: whether the response of a content request yields an
\* excerpt.  A response that is not 200, a missing or empty content field,
\* base64 or UTF-8 that does not decode, and text that is empty after
\* strip() yield none; so does requests.get raising (llm.py:129).
HasExcerpt(response) ==
    /\ response.kind = "http"
    /\ response.status = 200
    /\ response.json.present
    /\ response.json.bytes # <<>>
    /\ response.json.b64ok
    /\ Utf8Valid(response.json.bytes)
    /\ Strip(Utf8Decode(response.json.bytes)) # <<>>

\* AppendExcerpt with the excerpt put in front
PrependExcerpt(block, excerpt) == excerpt \o block

\* llm.py:124, content += excerpt
AppendExcerpt(block, excerpt) == block \o excerpt

\* an entry of the log of requests: for a content request, the index of
\* the tree entry and the name of the response it got
Request(kind, target, n, response) ==
    [kind |-> kind, target |-> target, item |-> n, response |-> response]

(***************************************************************************)
(* analyze_repo_sync, llm.py:140-218.                                      *)
(***************************************************************************)
Unbound == <<"<unbound>">>

\* extract_current_info (llm.py:13-26) of the log_text of llm.py:146
CurrentDate == <<"2025-02-02 10:45:04">>

Footer(date) ==
    <<"\n", "\n", "-", "-", "-", "\n", "*Generated by GH-Readme-Bot on ">>
        \o date \o <<" UTC*">>

\* llm.py:206-218
ErrorReport(msg, date) ==
    <<"\n# Repository Analysis Error\n\nAn error occurred while analyzing the repository:\n", Backquote>>
        \o msg
        \o <<Backquote, "\n\nPlease check:\n1. Repository access permissions\n2. API key configuration\n3. Network connectivity\n\n---\n*Generated by GH-Readme-Bot on ">>
        \o date \o <<" UTC*">>

\* the handler at llm.py:204-218 for an exception whose str() is msg: the
\* report reads current_date, a local that is bound only at llm.py:147
Handle(msg) ==
    /\ error' = msg
    /\ pc' = "done"
    /\ IF current_date = Unbound
       THEN /\ outcome' = "raised"
            /\ result' = <<"UnboundLocalError: current_date">>
       ELSE /\ outcome' = "returned"
            /\ result' = ErrorReport(msg, current_date)

\* the handler at llm.py:136-138 of get_repo_data, caught at llm.py:204
RepoDataFails(msg) == Handle(<<"Failed to analyze repository: ">> \o msg)

(***************************************************************************)
(* One invocation of analyze_repo_sync, a step per external request.       *)
(***************************************************************************)
Init ==
    \E sc \in Scenarios :
        /\ repo_url = sc.repo_url
        /\ github = [meta |-> sc.meta, tree |-> sc.tree]
        /\ groq = sc.groq
        /\ pc = "start"
        /\ owner = <<>> /\ repo = <<>>
        /\ summary = <<>> /\ default_branch = <<>>
        /\ tree_data = <<>> /\ item = 0
        /\ tree = <<>> /\ content = <<>>
        /\ current_date = Unbound
        /\ requests = <<>>
        /\ outcome = "running" /\ result = <<>> /\ error = <<>>
        /\ cleanIn = <<>> /\ cleanOnce = <<>> /\ cleanTwice = <<>>

\* llm.py:39-40
ParseUrl ==
    /\ pc = "start"
    /\ LET parts == UrlParts(repo_url)
       IN  IF UnpackOk(parts)
           THEN /\ owner' = parts[4]
                /\ repo' = parts[5]
                /\ pc' = "metadata"
                /\ UNCHANGED <<outcome, result, error>>
           ELSE /\ RepoDataFails(UnpackError(parts))
                /\ UNCHANGED <<owner, repo>>
    /\ UNCHANGED <<repo_url, github, groq, summary, default_branch, tree_data,
                   item, tree, content, current_date, requests>>
    /\ UNCHANGED cleanVars

\* llm.py:49-74
FetchMetadata ==
    /\ pc = "metadata"
    /\ requests' = Append(requests, Request("metadata", ApiBase(owner, repo), 0, ""))
    /\ LET response == github.meta
       IN  IF response.kind = "raise"
           THEN RepoDataFails(response.text) /\ UNCHANGED <<summary, default_branch>>
           ELSE IF ~IsSuccess(response)
           THEN RepoDataFails(ApiError(response)) /\ UNCHANGED <<summary, default_branch>>
           ELSE IF ~TopicsOk(response.json)
           THEN /\ RepoDataFails(<<"can only join an iterable">>)
                /\ UNCHANGED <<summary, default_branch>>
           ELSE /\ summary' = Summary(response.json)
                /\ default_branch' = DefaultBranch(response.json)
                /\ pc' = "tree"
                /\ UNCHANGED <<outcome, result, error>>
    /\ UNCHANGED <<repo_url, github, groq, owner, repo, tree_data, item, tree,
                   content, current_date>>
    /\ UNCHANGED cleanVars

\* llm.py:76-89
FetchTree ==
    /\ pc = "tree"
    /\ requests' = Append(requests,
            Request("tree", ApiBase(owner, repo) \o <<"/git/trees/">>
                                \o default_branch \o <<"?recursive=1">>, 0, ""))
    /\ LET response == github.tree
       IN  IF response.kind = "raise"
           THEN /\ RepoDataFails(response.text)
                /\ UNCHANGED <<tree_data, item, tree, content>>
           ELSE IF ~IsSuccess(response)
           THEN /\ RepoDataFails(ApiError(response))
                /\ UNCHANGED <<tree_data, item, tree, content>>
           ELSE /\ tree_data' = Get(response.json, "tree", <<>>)
                /\ tree' = TreeHeader
                /\ content' = ContentHeader
                /\ item' = 1
                /\ pc' = "files"
                /\ UNCHANGED <<outcome, result, error>>
    /\ UNCHANGED <<repo_url, github, groq, owner, repo, summary, default_branch,
                   current_date>>
    /\ UNCHANGED cleanVars

\* one pass of the loop at llm.py:102-131
ProcessItem ==
    /\ pc = "files"
    /\ item <= Len(tree_data)
    /\ item' = item + 1
    /\ LET entry == tree_data[item]
       IN  IF entry.path = <<>>
           THEN UNCHANGED <<tree, content, requests>>
           ELSE /\ tree' = tree \o TreeLine(entry.path)
                /\ IF IsCandidate(entry)
                   THEN \E name \in FileResponses :
                        LET response == FileResponse(name)
                        IN
                        /\ requests' = Append(requests,
                                Request("content", ApiBase(owner, repo)
                                    \o <<"/contents/">> \o entry.path, item, name))
                        /\ IF HasExcerpt(response)
                           THEN LET file_content == Utf8Decode(response.json.bytes)
                                IN  content' = AppendExcerpt(content,
                                            Excerpt(entry.path, file_content))
                           ELSE UNCHANGED content
                   ELSE UNCHANGED <<content, requests>>
    /\ UNCHANGED <<repo_url, github, groq, pc, owner, repo, summary,
                   default_branch, tree_data, current_date, outcome, result, error>>
    /\ UNCHANGED cleanVars

\* ReturnRepoData with current_date left unbound until after the completion
ReturnRepoDataDateLater ==
    /\ pc = "files"
    /\ item > Len(tree_data)
    /\ pc' = "completion"
    /\ UNCHANGED <<repo_url, github, groq, owner, repo, summary, default_branch,
                   tree_data, item, tree, content, current_date, requests,
                   outcome, result, error>>
    /\ UNCHANGED cleanVars

\* llm.py:133-134 and llm.py:144-147
ReturnRepoData ==
    /\ pc = "files"
    /\ item > Len(tree_data)
    /\ current_date' = CurrentDate
    /\ pc' = "completion"
    /\ UNCHANGED <<repo_url, github, groq, owner, repo, summary, default_branch,
                   tree_data, item, tree, content, requests, outcome,
                   result, error>>
    /\ UNCHANGED cleanVars

\* str() of the exception the completion step raises, llm.py:149-201
CompletionError(kind) ==
    IF kind = "nokey" THEN <<"The api_key client option must be set">>
    ELSE IF kind = "raise" THEN <<"Request timed out.">>
    ELSE IF kind = "nochoice" THEN <<"list index out of range">>
    ELSE IF kind = "nomessage" THEN <<"'NoneType' object has no attribute 'content'">>
    ELSE <<"unsupported operand type(s) for +=: 'NoneType' and 'str'">>

\* llm.py:149-202; the prompt sent is built of repo_url, summary, tree and
\* content, which this step leaves as they are
Complete ==
    /\ pc = "completion"
    /\ requests' = IF groq.kind = "nokey" THEN requests
                   ELSE Append(requests,
                            Request("completion", <<"llama-3.3-70b-versatile">>, 0, ""))
    /\ IF groq.kind = "text"
       THEN /\ result' = clean_output(groq.text \o Footer(current_date))
            /\ outcome' = "returned"
            /\ pc' = "done"
            /\ UNCHANGED error
       ELSE Handle(CompletionError(groq.kind))
    /\ UNCHANGED <<repo_url, github, groq, owner, repo, summary, default_branch,
                   tree_data, item, tree, content, current_date>>
    /\ UNCHANGED cleanVars

Next ==
    \/ ParseUrl
    \/ FetchMetadata
    \/ FetchTree
    \/ ProcessItem
    \/ ReturnRepoData
    \/ Complete

Spec == Init /\ [][Next]_vars

(***************************************************************************)
(* clean_output applied to a text and to its own result.                   *)
(***************************************************************************)
CleanFragments ==
    {ThinkOpen, ThinkClose, <<"<", "t", "h", "i">>, <<"n", "k", ">">>,
     <<"\n">>, <<"a">>}

CleanInputs ==
    {Concat(fs) : fs \in UNION {[1..n -> CleanFragments] : n \in 0..MaxFrags}}

InitClean ==
    /\ cleanIn \in CleanInputs
    /\ cleanOnce = <<>> /\ cleanTwice = <<>>
    /\ pc = "clean"
    /\ repo_url = <<>>
    /\ github = [meta |-> NotFound, tree |-> NotFound]
    /\ groq = BaseGroq
    /\ owner = <<>> /\ repo = <<>>
    /\ summary = <<>> /\ default_branch = <<>>
    /\ tree_data = <<>> /\ item = 0
    /\ tree = <<>> /\ content = <<>>
    /\ current_date = Unbound
    /\ requests = <<>>
    /\ outcome = "running" /\ result = <<>> /\ error = <<>>

CleanOnce ==
    /\ pc = "clean"
    /\ cleanOnce' = clean_output(cleanIn)
    /\ pc' = "cleaned"
    /\ UNCHANGED <<cleanIn, cleanTwice>>
    /\ UNCHANGED <<repo_url, github, groq, owner, repo, summary, default_branch,
                   tree_data, item, tree, content, current_date, requests, outcome, result, error>>

CleanAgain ==
    /\ pc = "cleaned"
    /\ cleanTwice' = clean_output(cleanOnce)
    /\ pc' = "recleaned"
    /\ UNCHANGED <<cleanIn, cleanOnce>>
    /\ UNCHANGED <<repo_url, github, groq, owner, repo, summary, default_branch,
                   tree_data, item, tree, content, current_date, requests, outcome, result, error>>

NextClean == CleanOnce \/ CleanAgain

SpecClean == InitClean /\ [][NextClean]_vars

(***************************************************************************)
(* The properties.                                                         *)
(***************************************************************************)
\* the positions in the log of the requests of one kind
Kinds(kind) == {i \in 1..Len(requests) : requests[i].kind = kind}

\* a response other than a 200: an error status, or no response at all
NonSuccess(response) == response.kind = "raise" \/ response.status # 200

\* metadata and tree were fetched and both succeeded
FetchSucceeded ==
    /\ Kinds("tree") # {}
    /\ ~NonSuccess(github.meta)
    /\ ~NonSuccess(github.tree)

ReportHeading ==
    "\n# Repository Analysis Error\n\nAn error occurred while analyzing the repository:\n"

\* a text is the error report of a message
IsReportOf(text, msg) ==
    /\ text # <<>>
    /\ Head(text) = ReportHeading
    /\ Contains(text, <<Backquote>> \o msg \o <<Backquote>>)

\* C1: whenever an error aborts the run (URL that does not parse, metadata
\* or tree request without success, completion failure), analyze_repo_sync
\* returns the error report with the error's message in it and raises
\* nothing.
C1_AbortReturnsReport ==
    (pc = "done" /\ error # <<>>) =>
        (outcome = "returned" /\ IsReportOf(result, error))

C3_FatalFetchStopsPipeline ==
    /\ (Kinds("metadata") # {} /\ NonSuccess(github.meta)) =>
            \A i \in 1..Len(requests) : requests[i].kind = "metadata"
    /\ (Kinds("tree") # {} /\ NonSuccess(github.tree)) =>
            \A i \in 1..Len(requests) : requests[i].kind \in {"metadata", "tree"}

C3_Witness ==
    /\ pc = "done"
    /\ github.meta.kind = "http"
    /\ github.meta.status = 404
    /\ Len(requests) = 1

\* the responses of a content request that give no text to excerpt: the
\* request raises, the status is not 200, the content is missing or empty,
\* base64 or UTF-8 do not decode, the text is whitespace
FailingFile ==
    {"raises", "notfound", "nocontent", "empty", "badbase64", "notutf8", "blank"}

\* the text of a file by the name of its response
DecodedText(name) ==
    CASE name = "short" -> <<"a", "U+00E9", "\n">>
      [] name = "full" -> Repeat("a", ExcerptLen)
      [] name = "long" -> Repeat("a", ExcerptLen - 1) \o <<"U+00E9", " ">>

\* the heading an excerpt of a path starts with
Heading(path) == <<"\n### ">> \o path \o <<"\n">>

PathOf(request) == tree_data[request.item].path

\* the loop over the tree has ended
LoopEnded == pc \in {"completion", "done"} /\ FetchSucceeded

\* C4: whatever the tree and whichever candidate files fail (request raises
\* or is not 200, payload does not decode, text empty or whitespace),
\* get_repo_data returns normally; each such file is absent from the content
\* block and present in the tree block, and every other candidate file is
\* fetched and excerpted.
C4_FileFailureNeverAborts ==
    LoopEnded =>
        /\ current_date = CurrentDate
        /\ error = <<>> \/ Head(error) # "Failed to analyze repository: "
        /\ \A i \in 1..Len(tree_data) :
            (tree_data[i].path # <<>> /\ IsCandidate(tree_data[i])) =>
                \E r \in Kinds("content") :
                    /\ requests[r].item = i
                    /\ Contains(tree, TreeLine(tree_data[i].path))
                    /\ requests[r].response \in FailingFile
                         <=> ~Contains(content, Heading(tree_data[i].path))

C4_Witness ==
    /\ LoopEnded
    /\ outcome = "returned"
    /\ \E r1, r2 \in Kinds("content") :
        /\ r1 < r2
        /\ requests[r1].response = "notfound"
        /\ requests[r2].response = "short"
        /\ ~Contains(content, Heading(PathOf(requests[r1])))
        /\ Contains(content, Heading(PathOf(requests[r2])))

\* a path the filters exclude
Filtered(path) ==
    \/ \E ext \in binary_extensions : EndsWith(path, ext)
    \/ \E excl \in excluded_paths : Contains(path, excl)

\* C5: for a tree entry whose path ends with a binary extension or contains
\* an excluded-directory substring, no content request is issued and the
\* content block has no excerpt of it, while the tree block lists it.
C5_FilteredNeverSampled ==
    \A i \in 1..Len(tree_data) :
        LET path == tree_data[i].path
        IN  (path # <<>> /\ Filtered(path)) =>
                /\ \A r \in Kinds("content") :
                    /\ requests[r].item # i
                    /\ ~EndsWith(requests[r].target, <<"/contents/">> \o path)
                /\ ~Contains(content, Heading(path))
                /\ item > i => Contains(tree, TreeLine(path))

C5_Witness ==
    /\ LoopEnded
    /\ Kinds("content") # {}
    /\ \E i \in 1..Len(tree_data) :
        /\ Contains(tree_data[i].path, <<"e", "n", "v", "/">>)
        /\ ~StartsAt(tree_data[i].path, 1, <<"e", "n", "v", "/">>)
        /\ Contains(tree, TreeLine(tree_data[i].path))

\* the requests are in the order metadata, tree, content requests by
\* ascending tree entry, completion; none is repeated
Sequential ==
    \A i \in 1..Len(requests) :
        LET k == requests[i].kind
        IN  /\ k = "metadata" <=> i = 1
            /\ k = "tree" <=> i = 2
            /\ k = "content" =>
                /\ requests[i].item \in 1..Len(tree_data)
                /\ IsCandidate(tree_data[requests[i].item])
                /\ \A j \in 1..(i - 1) :
                    requests[j].kind = "content" => requests[j].item < requests[i].item
            /\ k = "completion" => (i = Len(requests) /\ pc = "done")

\* the content block is the header and the excerpts of the files that gave
\* text, in the order of their requests
ExcerptsInRequestOrder ==
    LET got == SelectSeq(requests,
                   LAMBDA r : r.kind = "content" /\ r.response \notin FailingFile)
    IN  content # <<>> =>
            content = ContentHeader \o
                Concat([k \in 1..Len(got) |->
                    Excerpt(PathOf(got[k]), DecodedText(got[k].response))])

\* C6 as stated: the requests are sequential and never repeated, the
\* excerpts are in tree order, and the metadata request is issued exactly
\* once in every invocation.
C6_MetadataExactlyOnce ==
    /\ Sequential
    /\ ExcerptsInRequestOrder
    /\ pc = "done" => Cardinality(Kinds("metadata")) = 1

\* C6 amended: the requests are sequential and never repeated, the excerpts
\* are in tree order, and the metadata request is issued exactly once when
\* the URL parses and not at all when it does not.
C6_SequentialNoRetry ==
    /\ Sequential
    /\ ExcerptsInRequestOrder
    /\ (pc \notin {"start", "metadata"} /\ UnpackOk(UrlParts(repo_url))) =>
            Cardinality(Kinds("metadata")) = 1
    /\ ~UnpackOk(UrlParts(repo_url)) => requests = <<>>

C6_Witness ==
    /\ pc = "done"
    /\ outcome = "returned"
    /\ Len(requests) = 5
    /\ requests[3].response = "short"
    /\ requests[4].response = "long"
    /\ requests[5].kind = "completion"

\* the excerpt of a file: heading, fence, the first min(1000, length)
\* characters, the marker, fence
ExpectedExcerpt(path, text) ==
    <<"\n### ">> \o path \o <<"\n", Fence, "\n">>
        \o [i \in 1..Min(1000, Len(text)) |-> text[i]]
        \o <<"...">> \o <<"\n", Fence, "\n">>

\* C10: every excerpt of the content block is the path as a heading and a
\* fenced block of the first min(1000, length) characters of the text
\* followed by "...", also for a text shorter than 1000 characters.
C10_ExcerptSliceAndMarker ==
    LET got == SelectSeq(requests,
                   LAMBDA r : r.kind = "content" /\ r.response \notin FailingFile)
    IN  content # <<>> =>
            content = ContentHeader \o
                Concat([k \in 1..Len(got) |->
                    ExpectedExcerpt(PathOf(got[k]), DecodedText(got[k].response))])

C10_Witness ==
    /\ LoopEnded
    /\ \E r1, r2 \in Kinds("content") :
        /\ requests[r1].response = "short"
        /\ requests[r2].response = "long"
    /\ Contains(content, <<"a", "U+00E9", "\n", "...">>)
    /\ Contains(content, <<"a", "U+00E9", "...">>)

\* C7: clean_output is idempotent: cleaning a cleaned text changes nothing,
\* also when the markers <think> and </think> are nested, overlap or are
\* split around another span.
C7_CleanIdempotent == pc = "recleaned" => cleanTwice = cleanOnce

\* what follows the host in a URL: the host starts behind https:// and
\* ends before the next slash
UrlTail(url) ==
    LET from == FirstAt(url, 9, <<"/">>)
    IN  IF from = 0 THEN <<>> ELSE SubSeq(url, from, Len(url))

\* a tail with one trailing slash, if it has one, taken off
TrimmedTail(url) ==
    LET t == UrlTail(url)
    IN  IF t # <<>> /\ t[Len(t)] = "/" THEN SubSeq(t, 1, Len(t) - 1) ELSE t

\* the tail is /owner/repo or /owner/repo/ with owner and repo not empty
\* and free of slashes
TwoSegments(url) ==
    LET t == TrimmedTail(url)
    IN  \E j \in 3..(Len(t) - 1) :
            {i \in 1..Len(t) : t[i] = "/"} = {1, j}

FirstSegment(url) ==
    LET t == TrimmedTail(url)
    IN  SubSeq(t, 2, (CHOOSE j \in 2..Len(t) : t[j] = "/") - 1)

SecondSegment(url) ==
    LET t == TrimmedTail(url)
    IN  SubSeq(t, (CHOOSE j \in 2..Len(t) : t[j] = "/") + 1, Len(t))

\* C8: parsing succeeds exactly when the URL has two non-empty path segments
\* after the host (a trailing slash allowed) and then gives owner = first
\* segment, repo = second segment; any other URL fails before a request is
\* issued.
C8_ParsesExactlyTwoSegments ==
    pc # "start" =>
        IF TwoSegments(repo_url)
        THEN /\ owner = FirstSegment(repo_url)
             /\ repo = SecondSegment(repo_url)
             /\ pc = "done" => requests # <<>>
        ELSE pc = "done" /\ requests = <<>>

\* the element of a text that follows a label
After(text, label) ==
    text[(CHOOSE i \in 1..Len(text) : text[i] = label) + 1]

\* the field of the metadata is missing or null
Absent(repo_data, key) == key \notin DOMAIN repo_data \/ repo_data[key].t = "null"

\* C9: after a successful metadata response the summary shows "No
\* description provided", "Not specified" and "None specified" for a
\* description, a language and topics the response has no value for (field
\* missing, null, or an empty topic list), and the tree request is for
\* "main" when the response names no default branch.
C9_FallbacksForAbsentFields ==
    LET repo_data == github.meta.json
    IN  (Kinds("metadata") # {} /\ ~NonSuccess(github.meta)) =>
            /\ summary # <<>>
            /\ Absent(repo_data, "description") =>
                    After(summary, "\n            - Description: ")
                        = "No description provided"
            /\ Absent(repo_data, "language") =>
                    After(summary, "\n            - Primary Language: ")
                        = "Not specified"
            /\ (Absent(repo_data, "topics") \/ repo_data["topics"].v = <<>>) =>
                    After(summary, "\n            - Topics: ") = "None specified"
            /\ (Absent(repo_data, "default_branch") /\ Kinds("tree") # {}) =>
                    After(requests[2].target, "/git/trees/") = "main"

====
